---- MODULE Spec2Model ----
(***************************************************************************)
(* The text editor state of blackscript (src/src/widgets/textarea.rs):     *)
(* TextEditorStateInner, the Line buffer, the cursor, the wrap layout and  *)
(* the scroll offset, with one action per event handler.                   *)
(*                                                                         *)
(* Pixel quantities (f32 in the source) are integers in tenths of a pixel, *)
(* so that char_width 9.6 is 96 and line_height 20.0 is 200.  Positions    *)
(* into a line are 0-based as in the source; a TLA+ sequence is 1-based,   *)
(* so content[i] of the source is content[i + 1] here.                     *)
(***************************************************************************)
EXTENDS Integers, Sequences, FiniteSets, TLC

VARIABLES
    lines,                      \* Vec<Line>
    cursor_hpos,                \* usize
    cursor_vpos,                \* usize
    cursor_visible,             \* bool
    scroll_offset_y,            \* f32, tenths of a pixel
    viewport_height,            \* f32, tenths of a pixel
    viewport_width,             \* f32, tenths of a pixel
    last_click_position,        \* Option<Point>
    cached_word_count,          \* usize
    cached_char_count,          \* usize
    max_chars_per_visual_line,  \* usize
    probe,                      \* a single call of a pure function and its result
    default_font                \* Font

vars == <<lines, cursor_hpos, cursor_vpos, cursor_visible, scroll_offset_y,
          viewport_height, viewport_width, last_click_position,
          cached_word_count, cached_char_count, max_chars_per_visual_line,
          probe, default_font>>

----------------------------------------------------------------------------
(* Bounds of the model *)

\* the buffer holds at most MaxLines lines (Enter is cut off there)
MaxLines == 2
\* the buffer holds at most MaxChars characters (text input is cut off there)
MaxChars == 3
\* one text input event carries 1..MaxText characters
MaxText == 2
\* wheel scrolling is cut off above MaxScroll tenths of a pixel
MaxScroll == 200
\* the pure-function probes draw contents of up to MaxProbeLen characters
MaxProbeLen == 4
\* and wrap widths 0..MaxProbeWrap
MaxProbeWrap == 3

----------------------------------------------------------------------------
(* Program constants *)

\* line_height: 20.0
line_height == 200
\* char_width: 9.6
char_width == 96
\* default_font_size: 16.0
default_font_size == 160
\* the font size ensure_styles_match pads with: 12.0
PadFontSize == 120
\* let padding = 20.0
padding == 200
\* the left margin of the text: position.x - 10.0
LeftMargin == 100
\* max_chars_per_visual_line: 120
DefaultMaxChars == 120

\* the fonts a host gives the widget
Fonts == {"Courier New", "Font::MONOSPACE"}
PadFont == "Font::default"

\* the characters typed: a letter and a blank
Chars == {"a", " "}

\* char::is_whitespace
IsWhitespace(c) == c \in {" ", "\t", "\n"}

Min(a, b) == IF a < b THEN a ELSE b
Max(a, b) == IF a > b THEN a ELSE b
SetMax(S) == CHOOSE x \in S : \A y \in S : y <= x

\* integer division rounding toward minus infinity, then `as usize` (saturating at 0)
FloorToUsize(num, den) == IF num <= 0 THEN 0 ELSE num \div den

----------------------------------------------------------------------------
(* Vec primitives, positions 0-based *)

\* Vec::insert(pos, x)
VecInsert(s, pos, x) == SubSeq(s, 1, pos) \o <<x>> \o SubSeq(s, pos + 1, Len(s))
\* Vec::remove(pos)
VecRemove(s, pos) == SubSeq(s, 1, pos) \o SubSeq(s, pos + 2, Len(s))
\* Vec::drain(start..end), what stays
VecDrainRest(s, start, end) == SubSeq(s, 1, start) \o SubSeq(s, end + 1, Len(s))
\* Vec::drain(start..end), what is returned
VecDrained(s, start, end) == SubSeq(s, start + 1, end)
\* Vec::resize(n, x) when shorter, Vec::truncate(n) when longer
VecFit(s, n, x) ==
    IF Len(s) < n THEN s \o [i \in 1..(n - Len(s)) |-> x]
    ELSE SubSeq(s, 1, n)

----------------------------------------------------------------------------
(* Line *)

\* Line::new
NewLine == [content |-> <<>>, fonts |-> <<>>, font_sizes |-> <<>>]

\* Line::ensure_styles_match
ensure_styles_match(line) ==
    [content |-> line.content,
     fonts |-> VecFit(line.fonts, Len(line.content), PadFont),
     font_sizes |-> VecFit(line.font_sizes, Len(line.content), PadFontSize)]

\* Line::insert_char
insert_char(line, pos, c, font, font_size) ==
    [content |-> VecInsert(line.content, pos, c),
     fonts |-> VecInsert(line.fonts, pos, font),
     font_sizes |-> VecInsert(line.font_sizes, pos, font_size)]

\* Line::remove_char (the line afterwards)
remove_char(line, pos) ==
    IF pos < Len(line.content)
    THEN [content |-> VecRemove(line.content, pos),
          fonts |-> IF pos < Len(line.fonts)
                    THEN VecRemove(line.fonts, pos) ELSE line.fonts,
          font_sizes |-> IF pos < Len(line.font_sizes)
                         THEN VecRemove(line.font_sizes, pos) ELSE line.font_sizes]
    ELSE line

\* drain_chars forgetting the font sizes
drain_chars_keeps_sizes(line, start, end) ==
    [content |-> VecDrainRest(line.content, start, end),
     fonts |-> IF start < end /\ start < Len(line.fonts)
               THEN VecDrainRest(line.fonts, start, Min(end, Len(line.fonts)))
               ELSE line.fonts,
     font_sizes |-> line.font_sizes]

\* Line::drain_chars (the line afterwards)
drain_chars(line, start, end) ==
    [content |-> VecDrainRest(line.content, start, end),
     fonts |-> IF start < end /\ start < Len(line.fonts)
               THEN VecDrainRest(line.fonts, start, Min(end, Len(line.fonts)))
               ELSE line.fonts,
     font_sizes |-> IF start < end /\ start < Len(line.font_sizes)
                    THEN VecDrainRest(line.font_sizes, start,
                                      Min(end, Len(line.font_sizes)))
                    ELSE line.font_sizes]

\* Line::append
append(line, other) ==
    [content |-> line.content \o other.content,
     fonts |-> line.fonts \o other.fonts,
     font_sizes |-> line.font_sizes \o other.font_sizes]

\* lines[idx] = line
SetLine(ls, idx, line) == [ls EXCEPT ![idx + 1] = line]

----------------------------------------------------------------------------
(* Wrap layout *)

\* find_wrap_position breaking at the whitespace instead of after it
find_wrap_position_at_space(content, start, max_chars) ==
    LET end == Min(start + max_chars, Len(content))
        ws == {i \in start..(end - 1) : IsWhitespace(content[i + 1])}
    IN  IF start >= end \/ end = Len(content) THEN end
        ELSE IF ws # {} THEN SetMax(ws)
        ELSE end

\* find_wrap_position breaking after the first whitespace of the window
find_wrap_position_first_space(content, start, max_chars) ==
    LET end == Min(start + max_chars, Len(content))
        ws == {i \in start..(end - 1) : IsWhitespace(content[i + 1])}
    IN  IF start >= end \/ end = Len(content) THEN end
        ELSE IF ws # {} THEN (CHOOSE i \in ws : \A j \in ws : i <= j) + 1
        ELSE end

\* find_wrap_position with a window one character short: start + max_chars - 1
find_wrap_position_short_window(content, start, max_chars) ==
    LET end == Min(start + max_chars - 1, Len(content))
        ws == {i \in start..(end - 1) : IsWhitespace(content[i + 1])}
    IN  IF start >= end \/ end = Len(content) THEN end
        ELSE IF ws # {} THEN SetMax(ws) + 1
        ELSE end

\* find_wrap_position
find_wrap_position(content, start, max_chars) ==
    LET end == Min(start + max_chars, Len(content))
        ws == {i \in start..(end - 1) : IsWhitespace(content[i + 1])}
    IN  IF start >= end \/ end = Len(content) THEN end
        ELSE IF ws # {} THEN SetMax(ws) + 1
        ELSE end

\* the result of a wrap loop that did not reach the end of the content
Diverges == -1

\* the while loop of calculate_visual_lines; fuel bounds its iterations
RECURSIVE visual_lines_loop(_, _, _, _, _)
visual_lines_loop(content, max_chars, pos, visual_lines, fuel) ==
    IF pos >= Len(content) THEN visual_lines
    ELSE IF fuel = 0 THEN Diverges
    ELSE visual_lines_loop(content, max_chars,
                           find_wrap_position(content, pos, max_chars),
                           visual_lines + 1, fuel - 1)

\* calculate_visual_lines without the early return for an empty line
calculate_visual_lines_no_early_return(content, max_chars) ==
    visual_lines_loop(content, max_chars, 0, 0, Len(content))

\* calculate_visual_lines
calculate_visual_lines(content, max_chars) ==
    IF Len(content) = 0 THEN 1
    ELSE visual_lines_loop(content, max_chars, 0, 0, Len(content))

\* visual_line_count
RECURSIVE visual_line_count(_, _)
visual_line_count(ls, max_chars) ==
    IF ls = <<>> THEN 0
    ELSE calculate_visual_lines(Head(ls).content, max_chars)
         + visual_line_count(Tail(ls), max_chars)

\* get_visual_line_offset
get_visual_line_offset(ls, logical_line_idx, max_chars) ==
    visual_line_count(SubSeq(ls, 1, logical_line_idx), max_chars)

\* the while loop of logical_to_visual_position: <<visual_line, pos>>
RECURSIVE logical_to_visual_loop(_, _, _, _, _)
logical_to_visual_loop(content, max_chars, hpos, pos, visual_line) ==
    IF pos >= hpos THEN <<visual_line, pos>>
    ELSE LET wrap_pos == find_wrap_position(content, pos, max_chars)
         IN  IF wrap_pos >= hpos \/ wrap_pos <= pos THEN <<visual_line, pos>>
             ELSE logical_to_visual_loop(content, max_chars, hpos, wrap_pos,
                                         visual_line + 1)

\* logical_to_visual_position: <<visual_line, visual_column>>
logical_to_visual_position(ls, logical_line_idx, hpos, max_chars) ==
    IF logical_line_idx >= Len(ls) THEN <<0, 0>>
    ELSE LET content == ls[logical_line_idx + 1].content
         IN  IF content = <<>> THEN <<0, 0>>
             ELSE LET r == logical_to_visual_loop(content, max_chars, hpos, 0, 0)
                  IN  <<r[1], hpos - r[2]>>

\* ensure_cursor_visible: the new scroll_offset_y
ensure_cursor_visible(ls, vpos, hpos, scroll, max_chars, vh) ==
    LET total_visual_lines == visual_line_count(ls, max_chars)
        cursor_visual_line == logical_to_visual_position(ls, vpos, hpos, max_chars)[1]
        cursor_y == cursor_visual_line * line_height
        s1 == IF cursor_y < scroll THEN cursor_y
              ELSE IF cursor_y + line_height > scroll + vh
                   THEN cursor_y + line_height - vh
                   ELSE scroll
    IN  Min(Max(s1, 0), Max(total_visual_lines * line_height - vh, 0))

\* ensure_line_exists growing the buffer one line past the index
ensure_line_exists_one_more(ls, index) ==
    LET l1 == IF ls = <<>> THEN <<NewLine>> ELSE ls
    IN  IF index + 1 >= Len(l1)
        THEN l1 \o [i \in 1..(index + 2 - Len(l1)) |-> NewLine]
        ELSE l1

\* ensure_line_exists
ensure_line_exists(ls, index) ==
    LET l1 == IF ls = <<>> THEN <<NewLine>> ELSE ls
    IN  IF index >= Len(l1)
        THEN l1 \o [i \in 1..(index + 1 - Len(l1)) |-> NewLine]
        ELSE l1

\* update_max_chars dividing the whole width, the padding not taken off
update_max_chars_ignores_padding(width) ==
    Max(FloorToUsize(width, char_width), 1)

\* update_max_chars
update_max_chars(width) ==
    Max(FloorToUsize(Max(width - padding, 0), char_width), 1)

----------------------------------------------------------------------------
(* Metrics *)

\* text(): the lines joined by a line break
RECURSIVE text(_)
text(ls) ==
    IF ls = <<>> THEN <<>>
    ELSE IF Len(ls) = 1 THEN Head(ls).content
    ELSE Head(ls).content \o <<"\n">> \o text(Tail(ls))

\* str::split_whitespace().count()
split_whitespace_count(s) ==
    Cardinality({i \in 1..Len(s) :
                    /\ ~IsWhitespace(s[i])
                    /\ (i = 1 \/ IsWhitespace(s[i - 1]))})

\* update_cached_counts: the new cached_char_count
RECURSIVE counted_chars(_)
counted_chars(ls) ==
    IF ls = <<>> THEN 0
    ELSE LET c == Head(ls).content
         IN  (IF c # <<>> /\ c[1] # "\n" /\ c[1] # " " THEN Len(c) ELSE 0)
             + counted_chars(Tail(ls))

\* update_cached_counts: the new cached_word_count
counted_words(ls) == split_whitespace_count(text(ls))

----------------------------------------------------------------------------
(* Key handlers.  Each returns the fields it leaves behind, and whether it *)
(* ends by calling self.ensure_cursor_visible() on them:                   *)
(* [lines, hpos, vpos, reveal, words, chars].                              *)

\* the fields the key handlers write; reveal: ensure_cursor_visible is called
Fields(ls, hpos, vpos, reveal, words, chars) ==
    [lines |-> ls, hpos |-> hpos, vpos |-> vpos, reveal |-> reveal,
     words |-> words, chars |-> chars]

\* self.ensure_cursor_visible() on the current viewport
Reveal(ls, vpos, hpos, scroll) ==
    ensure_cursor_visible(ls, vpos, hpos, scroll,
                          max_chars_per_visual_line, viewport_height)

\* the for loop of handle_text_input inserting every character at cursor_hpos
RECURSIVE insert_chars_at_cursor(_, _, _, _)
insert_chars_at_cursor(line, hpos, chars, i) ==
    IF i >= Len(chars) THEN line
    ELSE insert_chars_at_cursor(insert_char(line, hpos, chars[i + 1],
                                            default_font, default_font_size),
                                hpos, chars, i + 1)

\* handle_text_input: the for loop inserting chars[i] at cursor_hpos + i
RECURSIVE insert_chars(_, _, _, _)
insert_chars(line, hpos, chars, i) ==
    IF i >= Len(chars) THEN line
    ELSE insert_chars(insert_char(line, hpos + i, chars[i + 1],
                                  default_font, default_font_size),
                      hpos, chars, i + 1)

\* handle_text_input advancing the cursor by one whatever the text's length
handle_text_input_one_step(chars) ==
    LET l0 == ensure_line_exists(lines, cursor_vpos)
        line == ensure_styles_match(
                    insert_chars(l0[cursor_vpos + 1], cursor_hpos, chars, 0))
        l1 == SetLine(l0, cursor_vpos, line)
        hpos == cursor_hpos + 1
    IN  Fields(l1, hpos, cursor_vpos, TRUE,
               cached_word_count, cached_char_count)

\* handle_text_input
handle_text_input(chars) ==
    LET l0 == ensure_line_exists(lines, cursor_vpos)
        line == ensure_styles_match(
                    insert_chars(l0[cursor_vpos + 1], cursor_hpos, chars, 0))
        l1 == SetLine(l0, cursor_vpos, line)
        hpos == cursor_hpos + Len(chars)
    IN  Fields(l1, hpos, cursor_vpos, TRUE,
               cached_word_count, cached_char_count)

\* handle_keyboard_event, KeyPressed { text: Some(text) }
key_text(chars) ==
    LET r == handle_text_input(chars)
    IN  [r EXCEPT !.words = counted_words(r.lines),
                  !.chars = counted_chars(r.lines)]

\* handle_enter inserting the new line at cursor_vpos, before the current line
handle_enter_inserts_before ==
    LET l0 == ensure_line_exists(lines, cursor_vpos)
        cur == l0[cursor_vpos + 1]
        len == Len(cur.content)
        splits == cursor_hpos < len
        content_to_move == VecDrained(cur.content, cursor_hpos, len)
        new_line == IF splits THEN insert_chars(NewLine, 0, content_to_move, 0)
                    ELSE NewLine
        l1 == IF splits
              THEN SetLine(l0, cursor_vpos,
                           ensure_styles_match(drain_chars(cur, cursor_hpos, len)))
              ELSE l0
        l2 == VecInsert(l1, cursor_vpos, new_line)
    IN  Fields(l2, 0, cursor_vpos + 1, TRUE,
               cached_word_count, cached_char_count)

\* handle_enter dropping the characters after the cursor instead of moving them
handle_enter_drops_tail ==
    LET l0 == ensure_line_exists(lines, cursor_vpos)
        cur == l0[cursor_vpos + 1]
        len == Len(cur.content)
        splits == cursor_hpos < len
        l1 == IF splits
              THEN SetLine(l0, cursor_vpos,
                           ensure_styles_match(drain_chars(cur, cursor_hpos, len)))
              ELSE l0
        l2 == VecInsert(l1, cursor_vpos + 1, NewLine)
    IN  Fields(l2, 0, cursor_vpos + 1, TRUE,
               cached_word_count, cached_char_count)

\* handle_enter
handle_enter ==
    LET l0 == ensure_line_exists(lines, cursor_vpos)
        cur == l0[cursor_vpos + 1]
        len == Len(cur.content)
        splits == cursor_hpos < len
        content_to_move == VecDrained(cur.content, cursor_hpos, len)
        new_line == IF splits THEN insert_chars(NewLine, 0, content_to_move, 0)
                    ELSE NewLine
        l1 == IF splits
              THEN SetLine(l0, cursor_vpos,
                           ensure_styles_match(drain_chars(cur, cursor_hpos, len)))
              ELSE l0
        l2 == VecInsert(l1, cursor_vpos + 1, new_line)
    IN  Fields(l2, 0, cursor_vpos + 1, TRUE,
               cached_word_count, cached_char_count)

\* handle_ctrl_backspace without the loop that skips the whitespace run
skip_whitespace_back_none(content, end_pos) == end_pos

\* handle_ctrl_backspace: while end_pos > 0 && content[end_pos - 1].is_whitespace()
RECURSIVE skip_whitespace_back(_, _)
skip_whitespace_back(content, end_pos) ==
    IF end_pos > 0 /\ IsWhitespace(content[end_pos])
    THEN skip_whitespace_back(content, end_pos - 1)
    ELSE end_pos

\* rposition's result taken as it is: the position of the whitespace itself
after_last_whitespace_at(content, end) ==
    LET ws == {i \in 0..(end - 1) : IsWhitespace(content[i + 1])}
    IN  IF ws = {} THEN 0 ELSE SetMax(ws)

\* content[..end].iter().rposition(|c| c.is_whitespace()).map_or(0, |pos| pos + 1)
after_last_whitespace(content, end) ==
    LET ws == {i \in 0..(end - 1) : IsWhitespace(content[i + 1])}
    IN  IF ws = {} THEN 0 ELSE SetMax(ws) + 1

\* handle_ctrl_backspace: [lines, hpos]
handle_ctrl_backspace(ls, vpos, hpos) ==
    IF hpos = 0 \/ vpos >= Len(ls) THEN [lines |-> ls, hpos |-> hpos]
    ELSE LET content == ls[vpos + 1].content
             end_pos == skip_whitespace_back(content, hpos)
             start_pos == IF end_pos > 0
                          THEN after_last_whitespace(content, end_pos) ELSE 0
         IN  IF start_pos < hpos
             THEN [lines |-> SetLine(ls, vpos,
                                     drain_chars(ls[vpos + 1], start_pos, hpos)),
                   hpos |-> start_pos]
             ELSE [lines |-> ls, hpos |-> hpos]

\* join_with_previous_line removing both lines and putting none back
join_with_previous_line_drops(ls, vpos, hpos) ==
    IF vpos = 0 \/ vpos >= Len(ls)
    THEN [lines |-> ls, hpos |-> hpos, vpos |-> vpos]
    ELSE [lines |-> VecRemove(VecRemove(ls, vpos), vpos - 1),
          hpos |-> Len(ls[vpos].content),
          vpos |-> vpos - 1]

\* join_with_previous_line reading the cursor position after the append
join_with_previous_line_cursor_at_end(ls, vpos, hpos) ==
    IF vpos = 0 \/ vpos >= Len(ls)
    THEN [lines |-> ls, hpos |-> hpos, vpos |-> vpos]
    ELSE LET current_line == ls[vpos + 1]
             removed == VecRemove(ls, vpos)
             prev_line_idx == vpos - 1
             joined == append(removed[prev_line_idx + 1], current_line)
         IN  [lines |-> SetLine(removed, prev_line_idx, joined),
              hpos |-> Len(joined.content),
              vpos |-> prev_line_idx]

\* join_with_previous_line: [lines, hpos, vpos]
join_with_previous_line(ls, vpos, hpos) ==
    IF vpos = 0 \/ vpos >= Len(ls)
    THEN [lines |-> ls, hpos |-> hpos, vpos |-> vpos]
    ELSE LET current_line == ls[vpos + 1]
             removed == VecRemove(ls, vpos)
             prev_line_idx == vpos - 1
             new_cursor_pos == Len(removed[prev_line_idx + 1].content)
         IN  [lines |-> SetLine(removed, prev_line_idx,
                                append(removed[prev_line_idx + 1], current_line)),
              hpos |-> new_cursor_pos,
              vpos |-> prev_line_idx]

\* handle_backspace on the buffer ls with the cursor at (vpos, hpos)
handle_backspace_on(ls, vpos, hpos, control) ==
    LET l0 == ensure_line_exists(ls, vpos)
        r == IF hpos > 0
             THEN IF control
                  THEN LET cb == handle_ctrl_backspace(l0, vpos, hpos)
                       IN  [lines |-> cb.lines, hpos |-> cb.hpos, vpos |-> vpos]
                  ELSE [lines |-> SetLine(l0, vpos,
                                          remove_char(l0[vpos + 1], hpos - 1)),
                        hpos |-> hpos - 1,
                        vpos |-> vpos]
             ELSE IF vpos > 0
                  THEN join_with_previous_line(l0, vpos, hpos)
                  ELSE [lines |-> l0, hpos |-> hpos, vpos |-> vpos]
        l1 == IF r.vpos < Len(r.lines)
              THEN SetLine(r.lines, r.vpos, ensure_styles_match(r.lines[r.vpos + 1]))
              ELSE r.lines
    IN  Fields(l1, r.hpos, r.vpos, TRUE,
               counted_words(l1), counted_chars(l1))

\* handle_backspace
handle_backspace(control) ==
    handle_backspace_on(lines, cursor_vpos, cursor_hpos, control)

\* handle_ctrl_delete without the loop that skips the whitespace after the cursor
skip_whitespace_forward_none(content, end_pos) == end_pos

\* handle_ctrl_delete: while end_pos < content.len() && content[end_pos].is_whitespace()
RECURSIVE skip_whitespace_forward(_, _)
skip_whitespace_forward(content, end_pos) ==
    IF end_pos < Len(content) /\ IsWhitespace(content[end_pos + 1])
    THEN skip_whitespace_forward(content, end_pos + 1)
    ELSE end_pos

\* handle_ctrl_delete: while end_pos < content.len() && !content[end_pos].is_whitespace()
RECURSIVE skip_word_forward(_, _)
skip_word_forward(content, end_pos) ==
    IF end_pos < Len(content) /\ ~IsWhitespace(content[end_pos + 1])
    THEN skip_word_forward(content, end_pos + 1)
    ELSE end_pos

\* handle_ctrl_delete: the lines afterwards
handle_ctrl_delete(ls, vpos, hpos) ==
    IF vpos >= Len(ls) THEN ls
    ELSE LET content == ls[vpos + 1].content
             end_pos == skip_word_forward(content,
                                          skip_whitespace_forward(content, hpos))
         IN  IF end_pos > hpos
             THEN SetLine(ls, vpos, drain_chars(ls[vpos + 1], hpos, end_pos))
             ELSE ls

\* join_with_next_line putting the next line in front of the current one
join_with_next_line_prepends(ls, vpos) ==
    IF vpos >= Len(ls) - 1 THEN ls
    ELSE LET next_line == ls[vpos + 2]
             removed == VecRemove(ls, vpos + 1)
         IN  SetLine(removed, vpos,
                     ensure_styles_match(append(next_line, removed[vpos + 1])))

\* join_with_next_line: the lines afterwards
join_with_next_line(ls, vpos) ==
    IF vpos >= Len(ls) - 1 THEN ls
    ELSE LET next_line == ls[vpos + 2]
             removed == VecRemove(ls, vpos + 1)
         IN  SetLine(removed, vpos,
                     ensure_styles_match(append(removed[vpos + 1], next_line)))

\* handle_delete
handle_delete(control) ==
    LET l0 == ensure_line_exists(lines, cursor_vpos)
        l1 == IF control THEN handle_ctrl_delete(l0, cursor_vpos, cursor_hpos)
              ELSE IF cursor_hpos < Len(l0[cursor_vpos + 1].content)
                   THEN SetLine(l0, cursor_vpos,
                                remove_char(l0[cursor_vpos + 1], cursor_hpos))
                   ELSE IF cursor_vpos < Len(l0) - 1
                        THEN join_with_next_line(l0, cursor_vpos)
                        ELSE l0
    IN  Fields(l1, cursor_hpos, cursor_vpos, FALSE,
               counted_words(l1), counted_chars(l1))

\* handle_arrow_left entering the previous line at its start
handle_arrow_left_to_line_start ==
    LET moved == cursor_hpos = 0 /\ cursor_vpos > 0
        vpos == IF moved THEN cursor_vpos - 1 ELSE cursor_vpos
        l0 == IF moved THEN ensure_line_exists(lines, vpos) ELSE lines
        hpos == IF cursor_hpos > 0 THEN cursor_hpos - 1 ELSE 0
    IN  Fields(l0, hpos, vpos, TRUE,
               cached_word_count, cached_char_count)

\* handle_arrow_left
handle_arrow_left ==
    LET moved == cursor_hpos = 0 /\ cursor_vpos > 0
        vpos == IF moved THEN cursor_vpos - 1 ELSE cursor_vpos
        l0 == IF moved THEN ensure_line_exists(lines, vpos) ELSE lines
        hpos == IF cursor_hpos > 0 THEN cursor_hpos - 1
                ELSE IF moved THEN Len(l0[vpos + 1].content)
                ELSE cursor_hpos
    IN  Fields(l0, hpos, vpos, TRUE,
               cached_word_count, cached_char_count)

\* handle_arrow_right stepping right without looking at the line's length
handle_arrow_right_past_end ==
    LET l0 == ensure_line_exists(lines, cursor_vpos)
    IN  Fields(l0, cursor_hpos + 1, cursor_vpos, TRUE,
               cached_word_count, cached_char_count)

\* handle_arrow_right
handle_arrow_right ==
    LET l0 == ensure_line_exists(lines, cursor_vpos)
        inside == cursor_hpos < Len(l0[cursor_vpos + 1].content)
        wraps == ~inside /\ cursor_vpos < Len(l0) - 1
        hpos == IF inside THEN cursor_hpos + 1
                ELSE IF wraps THEN 0 ELSE cursor_hpos
        vpos == IF wraps THEN cursor_vpos + 1 ELSE cursor_vpos
    IN  Fields(l0, hpos, vpos, TRUE,
               cached_word_count, cached_char_count)

\* the loops of handle_arrow_up / handle_arrow_down:
\* while current_visual < target && pos < content.len()
RECURSIVE wrap_advance(_, _, _, _, _)
wrap_advance(content, max_chars, pos, current_visual, target) ==
    IF current_visual < target /\ pos < Len(content)
    THEN wrap_advance(content, max_chars,
                      find_wrap_position(content, pos, max_chars),
                      current_visual + 1, target)
    ELSE pos

\* handle_arrow_up
handle_arrow_up ==
    IF cursor_vpos = 0 /\ cursor_hpos = 0
    THEN Fields(lines, cursor_hpos, cursor_vpos, FALSE,
                cached_word_count, cached_char_count)
    ELSE
    LET max_chars == max_chars_per_visual_line
        v == logical_to_visual_position(lines, cursor_vpos, cursor_hpos, max_chars)
        visual_line == v[1]
        visual_column == v[2]
        r == IF visual_line > 0
             THEN LET content == lines[cursor_vpos + 1].content
                      pos == wrap_advance(content, max_chars, 0, 0, visual_line - 1)
                  IN  [hpos |-> Min(pos + visual_column,
                                    find_wrap_position(content, pos, max_chars) - 1),
                       vpos |-> cursor_vpos]
             ELSE IF cursor_vpos > 0
             THEN LET prev_line == lines[cursor_vpos].content
                      prev_visual_lines == calculate_visual_lines(prev_line, max_chars)
                  IN  IF prev_visual_lines > 0
                      THEN LET pos == wrap_advance(prev_line, max_chars, 0, 0,
                                                   prev_visual_lines - 1)
                           IN  [hpos |-> Min(pos + visual_column, Len(prev_line)),
                                vpos |-> cursor_vpos - 1]
                      ELSE [hpos |-> 0, vpos |-> cursor_vpos - 1]
             ELSE [hpos |-> cursor_hpos, vpos |-> cursor_vpos]
    IN  Fields(lines, r.hpos, r.vpos, TRUE,
               cached_word_count, cached_char_count)

\* handle_arrow_down
handle_arrow_down ==
    IF /\ cursor_vpos >= Len(lines) - 1
       /\ cursor_hpos >= Len(lines[cursor_vpos + 1].content)
    THEN Fields(lines, cursor_hpos, cursor_vpos, FALSE,
                cached_word_count, cached_char_count)
    ELSE
    LET max_chars == max_chars_per_visual_line
        v == logical_to_visual_position(lines, cursor_vpos, cursor_hpos, max_chars)
        visual_line == v[1]
        visual_column == v[2]
        current_line == lines[cursor_vpos + 1].content
        current_line_visual_lines == calculate_visual_lines(current_line, max_chars)
        r == IF visual_line < current_line_visual_lines - 1
             THEN LET pos == wrap_advance(current_line, max_chars, 0, 0,
                                          visual_line + 1)
                  IN  [hpos |-> Min(Min(pos + visual_column,
                                        find_wrap_position(current_line, pos,
                                                           max_chars) - 1),
                                    Len(current_line)),
                       vpos |-> cursor_vpos]
             ELSE IF cursor_vpos < Len(lines) - 1
             THEN [hpos |-> Min(visual_column, Len(lines[cursor_vpos + 2].content)),
                   vpos |-> cursor_vpos + 1]
             ELSE [hpos |-> cursor_hpos, vpos |-> cursor_vpos]
    IN  Fields(lines, r.hpos, r.vpos, TRUE,
               cached_word_count, cached_char_count)

----------------------------------------------------------------------------
(* Pointer, wheel and viewport *)

\* Option<Point>::None
None == <<>>

\* usize::div_ceil
div_ceil(a, b) == (a + b - 1) \div b

\* handle_mouse_event, ButtonPressed: the for loop over the lines,
\* <<logical_vpos, visual_line>>
RECURSIVE click_line(_, _, _, _)
click_line(ls, idx, visual_line, max_chars) ==
    IF idx >= Len(ls) THEN <<0, visual_line>>
    ELSE LET num_visual == div_ceil(Len(ls[idx + 1].content), max_chars)
         IN  IF visual_line < num_visual THEN <<idx, visual_line>>
             ELSE click_line(ls, idx + 1, visual_line - num_visual, max_chars)

\* ButtonPressed without the clamp to the line's length
button_pressed_unclamped(position) ==
    LET click_y == position[2] + scroll_offset_y
        found == click_line(lines, 0, FloorToUsize(click_y, line_height),
                            max_chars_per_visual_line)
    IN  [hpos |-> found[2] * max_chars_per_visual_line
                  + FloorToUsize(position[1] - LeftMargin, char_width),
         vpos |-> found[1]]

\* handle_mouse_event, ButtonPressed(Left) with a position: [hpos, vpos]
button_pressed(position) ==
    LET click_y == position[2] + scroll_offset_y
        found == click_line(lines, 0, FloorToUsize(click_y, line_height),
                            max_chars_per_visual_line)
        logical_vpos == found[1]
        visual_line == found[2]
        hpos == visual_line * max_chars_per_visual_line
                + FloorToUsize(position[1] - LeftMargin, char_width)
    IN  [hpos |-> Min(hpos, Len(lines[logical_vpos + 1].content)),
         vpos |-> logical_vpos]

\* WheelScrolled without the clamp at 0
wheel_scrolled_unclamped(delta) ==
    IF delta[1] = "Lines"
    THEN scroll_offset_y - delta[2] * line_height
    ELSE scroll_offset_y - delta[2]

\* handle_mouse_event, WheelScrolled: the new scroll_offset_y for
\* delta = <<"Lines", y>> (y in lines) or <<"Pixels", y>> (y in tenths of a pixel)
wheel_scrolled(delta) ==
    LET moved == IF delta[1] = "Lines"
                 THEN scroll_offset_y - delta[2] * line_height
                 ELSE scroll_offset_y - delta[2]
    IN  Max(moved, 0)

----------------------------------------------------------------------------
(* Inputs *)

\* the texts of one text input event
RECURSIVE SeqsUpTo(_, _)
SeqsUpTo(S, n) ==
    IF n = 0 THEN {<<>>}
    ELSE LET shorter == SeqsUpTo(S, n - 1)
         IN  shorter \cup {Append(s, c) : s \in shorter, c \in S}

Texts == SeqsUpTo(Chars, MaxText) \ {<<>>}

\* pointer positions inside the canvas, <<x, y>> in tenths of a pixel
PointerPositions == {<<50, 0>>, <<300, 250>>}

\* wheel deltas: one line up, one line down, 20 pixels down
WheelDeltas == {<<"Lines", 1>>, <<"Lines", -1>>, <<"Pixels", -200>>}

\* window widths: narrower than the padding (one character per row), and
\* two characters wide
ViewportWidths == {150, 392}
\* window heights: one row high
ViewportHeights == {200}

\* the number of characters in the buffer
RECURSIVE total_chars(_)
total_chars(ls) ==
    IF ls = <<>> THEN 0 ELSE Len(Head(ls).content) + total_chars(Tail(ls))

\* no pure function is being probed
NoProbe == [fn |-> "none"]

\* the calls of find_wrap_position the probe draws from
WrapProbes ==
    [fn : {"find_wrap_position"},
     content : SeqsUpTo(Chars, MaxProbeLen),
     start : 0..MaxProbeLen,
     max_chars : 0..MaxProbeWrap,
     done : {FALSE},
     result : {0}]

\* the line "hello world"
HelloWorld == <<"h", "e", "l", "l", "o", " ", "w", "o", "r", "l", "d">>

\* the calls of calculate_visual_lines the probe draws from: every short
\* content at every small width, and "hello world" at width 5
VisualLinesProbes ==
    [fn : {"calculate_visual_lines"},
     content : SeqsUpTo(Chars, MaxProbeLen),
     max_chars : 0..MaxProbeWrap,
     done : {FALSE},
     result : {0}]
    \cup {[fn |-> "calculate_visual_lines", content |-> HelloWorld,
           max_chars |-> 5, done |-> FALSE, result |-> 0]}

\* the line "foo   bar"
FooBar == <<"f", "o", "o", " ", " ", " ", "b", "a", "r">>

\* the calls of handle_ctrl_backspace the probe draws from: every short line
\* with the cursor anywhere in it, and "foo   bar" with the cursor at its end
CtrlBackspaceProbes ==
    {p \in [fn : {"handle_ctrl_backspace"},
            content : SeqsUpTo(Chars, MaxProbeLen),
            hpos : 0..MaxProbeLen,
            done : {FALSE},
            result : {0}] : p.hpos <= Len(p.content)}
    \cup {[fn |-> "handle_ctrl_backspace", content |-> FooBar,
           hpos |-> Len(FooBar), done |-> FALSE, result |-> 0]}

\* a Line holding the content, every character in the given font
StyledLine(content, font) ==
    [content |-> content,
     fonts |-> [i \in 1..Len(content) |-> font],
     font_sizes |-> [i \in 1..Len(content) |-> default_font_size]]

\* the round trips the probe draws from: a text inserted at offset p of a
\* short line and drained again
RoundTripProbes ==
    {r \in [fn : {"insert_drain"},
            content : SeqsUpTo(Chars, MaxProbeLen),
            p : 0..MaxProbeLen,
            text : Texts,
            done : {FALSE},
            result : {0}] : r.p <= Len(r.content)}

----------------------------------------------------------------------------
(* The state machine *)

\* TextEditorState::default
Init ==
    /\ lines = <<NewLine>>
    /\ cursor_hpos = 0
    /\ cursor_vpos = 0
    /\ cursor_visible = TRUE
    /\ scroll_offset_y = 0
    /\ viewport_height = 0
    /\ viewport_width = 0
    /\ last_click_position = None
    /\ cached_word_count = 0
    /\ cached_char_count = 0
    /\ max_chars_per_visual_line = DefaultMaxChars
    /\ default_font = "Courier New"
    /\ probe = NoProbe

\* what a key handler leaves behind
Becomes(r) ==
    /\ lines' = r.lines
    /\ cursor_hpos' = r.hpos
    /\ cursor_vpos' = r.vpos
    /\ scroll_offset_y' = IF r.reveal
                          THEN Reveal(r.lines, r.vpos, r.hpos, scroll_offset_y)
                          ELSE scroll_offset_y
    /\ cached_word_count' = r.words
    /\ cached_char_count' = r.chars
    /\ UNCHANGED <<cursor_visible, viewport_height, viewport_width,
                   last_click_position, max_chars_per_visual_line, probe,
                   default_font>>

TextInput ==
    /\ \E chars \in Texts :
          /\ total_chars(lines) + Len(chars) <= MaxChars
          /\ Becomes(key_text(chars))

Enter ==
    /\ Len(lines) < MaxLines
    /\ Becomes(handle_enter)

Backspace ==
    /\ Becomes(handle_backspace(FALSE))

CtrlBackspace ==
    /\ Becomes(handle_backspace(TRUE))

Delete ==
    /\ Becomes(handle_delete(FALSE))

CtrlDelete ==
    /\ Becomes(handle_delete(TRUE))

ArrowLeft ==
    /\ Becomes(handle_arrow_left)

ArrowRight ==
    /\ Becomes(handle_arrow_right)

ArrowUp ==
    /\ Becomes(handle_arrow_up)

ArrowDown ==
    /\ Becomes(handle_arrow_down)

\* handle_mouse_event, ButtonPressed(Left)
ButtonPressed ==
    /\ UNCHANGED <<lines, scroll_offset_y, viewport_height, viewport_width,
                   last_click_position, cached_word_count, cached_char_count,
                   max_chars_per_visual_line, probe,
                   default_font>>
    /\ IF last_click_position # None
       THEN LET r == button_pressed(last_click_position)
            IN  /\ cursor_vpos' = r.vpos
                /\ cursor_hpos' = r.hpos
                /\ cursor_visible' = TRUE
       ELSE UNCHANGED <<cursor_vpos, cursor_hpos, cursor_visible>>

\* handle_mouse_event, CursorMoved
CursorMoved ==
    /\ UNCHANGED <<lines, cursor_hpos, cursor_vpos, cursor_visible,
                   scroll_offset_y, viewport_height, viewport_width,
                   cached_word_count, cached_char_count,
                   max_chars_per_visual_line, probe,
                   default_font>>
    /\ \E position \in PointerPositions, contained \in BOOLEAN :
          last_click_position' = IF contained THEN position ELSE None

\* handle_mouse_event, WheelScrolled
WheelScrolled ==
    /\ UNCHANGED <<lines, cursor_hpos, cursor_vpos, cursor_visible,
                   viewport_height, viewport_width, last_click_position,
                   cached_word_count, cached_char_count,
                   max_chars_per_visual_line, probe,
                   default_font>>
    /\ \E delta \in WheelDeltas :
          /\ wheel_scrolled(delta) <= MaxScroll
          /\ scroll_offset_y' = wheel_scrolled(delta)

\* set_viewport_size
SetViewportSize ==
    /\ UNCHANGED <<lines, cursor_hpos, cursor_vpos, cursor_visible,
                   scroll_offset_y, last_click_position, cached_word_count,
                   cached_char_count, probe, default_font>>
    /\ \E width \in ViewportWidths, height \in ViewportHeights :
          /\ viewport_width' = width
          /\ viewport_height' = height
          /\ max_chars_per_visual_line' = update_max_chars(width)

\* toggle_cursor_visibility recounting on every blink
ToggleCursorVisibilityRecounts ==
    /\ cursor_visible' = ~cursor_visible
    /\ cached_word_count' = counted_words(lines)
    /\ cached_char_count' = counted_chars(lines)
    /\ UNCHANGED <<lines, cursor_hpos, cursor_vpos, scroll_offset_y,
                   viewport_height, viewport_width, last_click_position,
                   max_chars_per_visual_line, probe,
                   default_font>>

\* toggle_cursor_visibility
ToggleCursorVisibility ==
    /\ UNCHANGED <<lines, cursor_hpos, cursor_vpos, scroll_offset_y,
                   viewport_height, viewport_width, last_click_position,
                   cached_word_count, cached_char_count,
                   max_chars_per_visual_line, probe,
                   default_font>>
    /\ cursor_visible' = ~cursor_visible

Next ==
    \/ TextInput
    \/ Enter
    \/ Backspace
    \/ CtrlBackspace
    \/ Delete
    \/ CtrlDelete
    \/ ArrowLeft
    \/ ArrowRight
    \/ ArrowUp
    \/ ArrowDown
    \/ ButtonPressed
    \/ CursorMoved
    \/ WheelScrolled
    \/ SetViewportSize
    \/ ToggleCursorVisibility

Spec == Init /\ [][Next]_vars

----------------------------------------------------------------------------
(* The keyboard on its own: the key intents in the default viewport.  The  *)
(* buffers and cursors met are those of Spec; the pointer, the wheel, the  *)
(* window size and the blink, which no key handler's edit reads, stay as   *)
(* TextEditorState::default leaves them.                                   *)

NextKeys ==
    \/ TextInput
    \/ Enter
    \/ Backspace
    \/ CtrlBackspace
    \/ Delete
    \/ CtrlDelete
    \/ ArrowLeft
    \/ ArrowRight
    \/ ArrowUp
    \/ ArrowDown

SpecKeys == Init /\ [][NextKeys]_vars

----------------------------------------------------------------------------
(* The widget in a host that changes its font while it is in use: the key  *)
(* intents and with_font, in the default viewport.                         *)

\* TextEditorWidget::with_font
WithFont ==
    /\ \E font \in Fonts : default_font' = font
    /\ UNCHANGED <<lines, cursor_hpos, cursor_vpos, cursor_visible,
                   scroll_offset_y, viewport_height, viewport_width,
                   last_click_position, cached_word_count, cached_char_count,
                   max_chars_per_visual_line, probe>>

NextStyle ==
    \/ TextInput
    \/ Enter
    \/ Backspace
    \/ CtrlBackspace
    \/ Delete
    \/ CtrlDelete
    \/ ArrowLeft
    \/ ArrowRight
    \/ ArrowUp
    \/ ArrowDown
    \/ WithFont

SpecStyle == Init /\ [][NextStyle]_vars

----------------------------------------------------------------------------
(* The pure functions on their own: one call of one of them on drawn       *)
(* inputs, in the default editor state.                                    *)

InitWrap ==
    /\ lines = <<NewLine>>
    /\ cursor_hpos = 0
    /\ cursor_vpos = 0
    /\ cursor_visible = TRUE
    /\ scroll_offset_y = 0
    /\ viewport_height = 0
    /\ viewport_width = 0
    /\ last_click_position = None
    /\ cached_word_count = 0
    /\ cached_char_count = 0
    /\ max_chars_per_visual_line = DefaultMaxChars
    /\ default_font = "Courier New"
    /\ probe \in WrapProbes \cup VisualLinesProbes \cup CtrlBackspaceProbes
                  \cup RoundTripProbes

CallFindWrapPosition ==
    /\ probe.fn = "find_wrap_position"
    /\ ~probe.done
    /\ probe' = [probe EXCEPT
                   !.done = TRUE,
                   !.result = find_wrap_position(probe.content, probe.start,
                                                 probe.max_chars)]
    /\ UNCHANGED <<lines, cursor_hpos, cursor_vpos, cursor_visible,
                   scroll_offset_y, viewport_height, viewport_width,
                   last_click_position, cached_word_count, cached_char_count,
                   max_chars_per_visual_line, default_font>>

CallCalculateVisualLines ==
    /\ probe.fn = "calculate_visual_lines"
    /\ ~probe.done
    /\ probe' = [probe EXCEPT
                   !.done = TRUE,
                   !.result = calculate_visual_lines(probe.content,
                                                     probe.max_chars)]
    /\ UNCHANGED <<lines, cursor_hpos, cursor_vpos, cursor_visible,
                   scroll_offset_y, viewport_height, viewport_width,
                   last_click_position, cached_word_count, cached_char_count,
                   max_chars_per_visual_line, default_font>>

\* handle_ctrl_backspace on a buffer of one line typed in the default style;
\* the result is the line's content and cursor_hpos afterwards
CallCtrlBackspace ==
    /\ probe.fn = "handle_ctrl_backspace"
    /\ ~probe.done
    /\ probe' = [probe EXCEPT
                   !.done = TRUE,
                   !.result =
                       LET line == insert_chars(NewLine, 0, probe.content, 0)
                           r == handle_ctrl_backspace(<<line>>, 0, probe.hpos)
                       IN  [content |-> r.lines[1].content, hpos |-> r.hpos]]
    /\ UNCHANGED <<lines, cursor_hpos, cursor_vpos, cursor_visible,
                   scroll_offset_y, viewport_height, viewport_width,
                   last_click_position, cached_word_count, cached_char_count,
                   max_chars_per_visual_line, default_font>>

\* the for loop of handle_text_input on a line typed in another font, then
\* Line::drain_chars of the inserted range; the result is what drain_chars
\* returns and the line it leaves
CallInsertDrain ==
    /\ probe.fn = "insert_drain"
    /\ ~probe.done
    /\ probe' = [probe EXCEPT
                   !.done = TRUE,
                   !.result =
                       LET line == StyledLine(probe.content, "Font::MONOSPACE")
                           inserted == insert_chars(line, probe.p, probe.text, 0)
                           end == probe.p + Len(probe.text)
                       IN  [drained |-> VecDrained(inserted.content, probe.p, end),
                            line |-> drain_chars(inserted, probe.p, end)]]
    /\ UNCHANGED <<lines, cursor_hpos, cursor_vpos, cursor_visible,
                   scroll_offset_y, viewport_height, viewport_width,
                   last_click_position, cached_word_count, cached_char_count,
                   max_chars_per_visual_line, default_font>>

NextWrap ==
    \/ CallFindWrapPosition
    \/ CallCalculateVisualLines
    \/ CallCtrlBackspace
    \/ CallInsertDrain

SpecWrap == InitWrap /\ [][NextWrap]_vars

----------------------------------------------------------------------------
(* Vocabulary of the properties *)

\* the key intents
KeyIntent ==
    \/ TextInput \/ Enter \/ Backspace \/ CtrlBackspace \/ Delete \/ CtrlDelete
    \/ ArrowLeft \/ ArrowRight \/ ArrowUp \/ ArrowDown

\* the key intents that change content
ContentKey ==
    \/ TextInput \/ Enter \/ Backspace \/ CtrlBackspace \/ Delete \/ CtrlDelete

\* cursor motion, scrolling, resizing and the blink
PureMotion ==
    \/ ArrowLeft \/ ArrowRight \/ ArrowUp \/ ArrowDown \/ ButtonPressed
    \/ WheelScrolled \/ SetViewportSize \/ ToggleCursorVisibility

\* the content of every line
Contents(ls) == [i \in 1..Len(ls) |-> ls[i].content]

\* the cursor's visual row counted from the top of the document
GlobalCursorRow ==
    get_visual_line_offset(lines, cursor_vpos, max_chars_per_visual_line)
    + logical_to_visual_position(lines, cursor_vpos, cursor_hpos,
                                 max_chars_per_visual_line)[1]

\* the maximal runs of non-whitespace characters of the document, line by line
RECURSIVE WordRuns(_)
WordRuns(ls) ==
    IF ls = <<>> THEN 0
    ELSE LET c == Head(ls).content
         IN  Cardinality({i \in 1..Len(c) :
                             /\ ~IsWhitespace(c[i])
                             /\ (i = Len(c) \/ IsWhitespace(c[i + 1]))})
             + WordRuns(Tail(ls))

----------------------------------------------------------------------------
(* Properties *)

\* C1: in every reachable state 0 <= cursor_vpos < number of lines and
\* 0 <= cursor_hpos <= length of the cursor line's content.
CursorInBounds ==
    /\ cursor_vpos \in 0..(Len(lines) - 1)
    /\ cursor_hpos \in 0..Len(lines[cursor_vpos + 1].content)

\* C1 witness: the cursor sits at the end of a non-empty second line while the
\* first line is non-empty too and the view is scrolled.
CursorInBoundsWitness ==
    /\ Len(lines) = 2
    /\ cursor_vpos = 1
    /\ lines[1].content # <<>>
    /\ cursor_hpos = Len(lines[2].content)
    /\ cursor_hpos > 0
    /\ scroll_offset_y > 0
    /\ last_click_position # None

\* C2: every line of the buffer has as many fonts and font sizes as characters.
StylesMatchContent ==
    \A i \in 1..Len(lines) :
        /\ Len(lines[i].fonts) = Len(lines[i].content)
        /\ Len(lines[i].font_sizes) = Len(lines[i].content)

\* C2 witness: two non-empty lines, the buffer full, the counts refreshed by
\* the edit that produced them.
StylesMatchContentWitness ==
    /\ Len(lines) = 2
    /\ lines[1].content # <<>>
    /\ lines[2].content # <<>>
    /\ total_chars(lines) = MaxChars
    /\ cached_word_count = counted_words(lines)
    /\ cursor_hpos < Len(lines[cursor_vpos + 1].content)

\* C3: the buffer never holds zero lines.
BufferNeverEmpty == Len(lines) >= 1

\* C3 witness: a single line holding all the characters the buffer can hold,
\* the cursor inside it, as a join of two lines leaves it.
BufferNeverEmptyWitness ==
    /\ Len(lines) = 1
    /\ Len(lines[1].content) = MaxChars
    /\ cursor_hpos \in 1..(MaxChars - 1)
    /\ cached_word_count = counted_words(lines)

\* C4: after every key intent, when the viewport is at least one row high,
\* the cursor's global visual row lies inside the viewport.
CursorStaysVisible ==
    [][(KeyIntent /\ viewport_height >= line_height) =>
          /\ scroll_offset_y' <= GlobalCursorRow' * line_height
          /\ GlobalCursorRow' * line_height + line_height
                <= scroll_offset_y' + viewport_height']_vars

\* C5: scroll_offset_y never exceeds
\* max(0, total_visual_lines * line_height - viewport_height).
ScrollWithinContent ==
    scroll_offset_y
        <= Max(0, visual_line_count(lines, max_chars_per_visual_line) * line_height
                  - viewport_height)

\* C6: scroll_offset_y is never negative.
ScrollNonNegative == scroll_offset_y >= 0

\* C6 witness: the view is at the top again once the window has a height,
\* the buffer two lines and the cursor is on the second.
ScrollNonNegativeWitness ==
    /\ scroll_offset_y = 0
    /\ viewport_height > 0
    /\ Len(lines) = 2
    /\ cursor_vpos = 1

\* C7: char_count() is the number of characters in the buffer.
CharCountIsTotal == cached_char_count = total_chars(lines)

\* C8: after every content-changing key intent word_count() is the number of
\* maximal runs of non-whitespace characters of the document.
WordCountAfterEdit ==
    [][ContentKey => cached_word_count' = WordRuns(lines')]_vars

\* C9: cursor motion, wheel scrolling, resizing and the cursor blink leave the
\* cached counts and the content of every line unchanged.
\* (stated by contraposition: a step that changes one of them is not one of
\* these operations)
MotionKeepsContent ==
    [][(\/ cached_word_count' # cached_word_count
        \/ cached_char_count' # cached_char_count
        \/ Contents(lines') # Contents(lines)) => ~PureMotion]_vars

\* C9 witness: the counts are those of before an Enter (they differ from a
\* recount) and the cursor is back on the first line, the view scrolled, the
\* window resized and the cursor blinked off: only motion leads here.
MotionKeepsContentWitness ==
    /\ Len(lines) = 2
    /\ cursor_vpos = 0
    /\ cached_word_count # counted_words(lines)
    /\ cached_char_count > 0
    /\ scroll_offset_y > 0
    /\ viewport_width > 0
    /\ ~cursor_visible

\* C10: find_wrap_position(line, start, max_chars) with start < len(content)
\* and max_chars >= 1 returns a value greater than start.
WrapProgress ==
    (/\ probe.fn = "find_wrap_position"
     /\ probe.done
     /\ probe.start < Len(probe.content)
     /\ probe.max_chars >= 1)
        => probe.result > probe.start

\* C10 witness: a call that broke after a whitespace character, before the
\* end of its window.
WrapProgressWitness ==
    /\ probe.fn = "find_wrap_position"
    /\ probe.done
    /\ probe.start < Len(probe.content)
    /\ probe.max_chars >= 1
    /\ probe.result < Min(probe.start + probe.max_chars, Len(probe.content))
    /\ IsWhitespace(probe.content[probe.result])

\* a set of chunk starts: it holds 0 and, with a start, the start of the next
\* chunk when there is one
ClosedUnderWrap(T, content, max_chars) ==
    /\ 0 \in T
    /\ \A p \in T :
          find_wrap_position(content, p, max_chars) < Len(content)
              => find_wrap_position(content, p, max_chars) \in T

\* the starts of the chunks met from position 0: the least such set
ChunkStarts(content, max_chars) ==
    {p \in 0..(Len(content) - 1) :
        \A T \in SUBSET (0..(Len(content) - 1)) :
            ClosedUnderWrap(T, content, max_chars) => p \in T}

\* C11: calculate_visual_lines returns 1 for an empty line and otherwise the
\* number of chunks met by applying find_wrap_position from position 0 until
\* the end of the content; "hello world" at 5 characters per row yields 3.
VisualLinesCountsChunks ==
    (/\ probe.fn = "calculate_visual_lines"
     /\ probe.done
     /\ probe.max_chars >= 1)
        => /\ probe.content = <<>> => probe.result = 1
           /\ probe.content # <<>> =>
                 probe.result
                     = Cardinality(ChunkStarts(probe.content, probe.max_chars))
           /\ (probe.content = HelloWorld /\ probe.max_chars = 5) =>
                 probe.result = 3

\* C11 witness: "hello world" has been laid out at 5 characters per row, in
\* the rows "hello", " " and "world".
VisualLinesCountsChunksWitness ==
    /\ probe.fn = "calculate_visual_lines"
    /\ probe.done
    /\ probe.content = HelloWorld
    /\ probe.max_chars = 5
    /\ probe.result = 3
    /\ ChunkStarts(probe.content, probe.max_chars) = {0, 5, 6}

\* content with the text spliced in at hpos
SplicedAt(content, hpos, chars) ==
    SubSeq(content, 1, hpos) \o chars \o SubSeq(content, hpos + 1, Len(content))

\* C13: text input of a string T at cursor (vpos, hpos) makes line vpos
\* old[0..hpos] ++ T ++ old[hpos..], leaves every other line unchanged, keeps
\* vpos and sets hpos to hpos + len(T); typing "hello world" into the empty
\* document gives char_count 11, word_count 2 and the cursor (0, 11).
TextInputSplices ==
    /\ \A chars \in Texts :
          LET r == handle_text_input(chars)
          IN  /\ Len(r.lines) = Len(lines)
              /\ r.lines[cursor_vpos + 1].content
                    = SplicedAt(lines[cursor_vpos + 1].content, cursor_hpos, chars)
              /\ \A i \in 1..Len(lines) :
                    i # cursor_vpos + 1 => r.lines[i] = lines[i]
              /\ r.vpos = cursor_vpos
              /\ r.hpos = cursor_hpos + Len(chars)
    /\ (lines = <<NewLine>> /\ cursor_vpos = 0 /\ cursor_hpos = 0) =>
          LET r == key_text(HelloWorld)
          IN  /\ Contents(r.lines) = <<HelloWorld>>
              /\ r.chars = 11
              /\ r.words = 2
              /\ r.vpos = 0
              /\ r.hpos = 11

\* C13 witness: the cursor is between the two characters of the second line
\* of a two-line document with room for one more character, and a blank typed
\* there lands between them, the cursor one place further.
TextInputSplicesWitness ==
    /\ Len(lines) = 2
    /\ cursor_vpos = 1
    /\ cursor_hpos = 1
    /\ Len(lines[2].content) = 2
    /\ total_chars(lines) + 1 <= MaxChars
    /\ LET r == handle_text_input(<<" ">>)
       IN  /\ r.lines[2].content
                 = <<lines[2].content[1], " ", lines[2].content[2]>>
           /\ r.lines[1] = lines[1]
           /\ r.hpos = 2
           /\ r.vpos = 1

\* C14: Enter at cursor (vpos, hpos) adds exactly one line: line vpos is cut
\* to old[0..hpos], a new line holding old[hpos..] comes right after it, the
\* other lines keep their content and order, and the cursor is (vpos + 1, 0);
\* at the end of a line the new line is empty and line vpos is unchanged.
EnterSplits ==
    LET r == handle_enter
        old == lines[cursor_vpos + 1].content
    IN  /\ Len(r.lines) = Len(lines) + 1
        /\ r.lines[cursor_vpos + 1].content = SubSeq(old, 1, cursor_hpos)
        /\ r.lines[cursor_vpos + 2].content
              = SubSeq(old, cursor_hpos + 1, Len(old))
        /\ \A i \in 1..cursor_vpos : r.lines[i] = lines[i]
        /\ \A i \in (cursor_vpos + 2)..Len(lines) : r.lines[i + 1] = lines[i]
        /\ r.vpos = cursor_vpos + 1
        /\ r.hpos = 0
        /\ cursor_hpos = Len(old) =>
              /\ r.lines[cursor_vpos + 2] = NewLine
              /\ r.lines[cursor_vpos + 1] = lines[cursor_vpos + 1]

\* C14 witness: Enter inside the only line, a blank before the cursor and a
\* letter after it, leaves two lines with both halves non-empty.
EnterSplitsWitness ==
    /\ Len(lines) < MaxLines
    /\ cursor_vpos = 0
    /\ cursor_hpos \in 1..(Len(lines[1].content) - 1)
    /\ lines[1].content[cursor_hpos] = " "
    /\ lines[1].content[cursor_hpos + 1] = "a"
    /\ LET r == handle_enter
       IN  /\ Len(r.lines) = Len(lines) + 1
           /\ r.lines[1].content # <<>>
           /\ r.lines[2].content # <<>>
           /\ r.vpos = 1
           /\ r.hpos = 0

\* C15: when Enter splits a line, each character moved to the new line keeps
\* the font and the font size it had before the split.
EnterKeepsStyles ==
    [][Enter =>
          LET old == lines[cursor_vpos + 1]
              new == lines'[cursor_vpos + 2]
          IN  /\ new.fonts = SubSeq(old.fonts, cursor_hpos + 1, Len(old.fonts))
              /\ new.font_sizes
                    = SubSeq(old.font_sizes, cursor_hpos + 1, Len(old.font_sizes))
       ]_vars

\* content without the character at pos
WithoutAt(content, pos) ==
    SubSeq(content, 1, pos) \o SubSeq(content, pos + 2, Len(content))

\* C16: Backspace without Ctrl: with hpos > 0 it removes exactly the character
\* at hpos - 1 and decrements hpos; with hpos = 0 and vpos > 0 it replaces
\* lines vpos - 1 and vpos by their concatenation, one line fewer, the cursor
\* at (vpos - 1, former length of line vpos - 1); all other lines unchanged.
BackspaceRemovesOrJoins ==
    LET r == handle_backspace(FALSE)
        cur == lines[cursor_vpos + 1].content
    IN  /\ cursor_hpos > 0 =>
              /\ Len(r.lines) = Len(lines)
              /\ r.lines[cursor_vpos + 1].content = WithoutAt(cur, cursor_hpos - 1)
              /\ \A i \in 1..Len(lines) :
                    i # cursor_vpos + 1 => r.lines[i] = lines[i]
              /\ r.hpos = cursor_hpos - 1
              /\ r.vpos = cursor_vpos
        /\ (cursor_hpos = 0 /\ cursor_vpos > 0) =>
              /\ Len(r.lines) = Len(lines) - 1
              /\ r.lines[cursor_vpos].content = lines[cursor_vpos].content \o cur
              /\ \A i \in 1..(cursor_vpos - 1) : r.lines[i] = lines[i]
              /\ \A i \in (cursor_vpos + 2)..Len(lines) :
                    r.lines[i - 1] = lines[i]
              /\ r.vpos = cursor_vpos - 1
              /\ r.hpos = Len(lines[cursor_vpos].content)

\* C16 witness: the cursor is at the start of the second of two non-empty
\* lines and Backspace joins them, the cursor where the first line ended.
BackspaceRemovesOrJoinsWitness ==
    /\ Len(lines) = 2
    /\ cursor_vpos = 1
    /\ cursor_hpos = 0
    /\ lines[1].content # <<>>
    /\ lines[2].content # <<>>
    /\ LET r == handle_backspace(FALSE)
       IN  /\ Contents(r.lines) = <<lines[1].content \o lines[2].content>>
           /\ r.vpos = 0
           /\ r.hpos = Len(lines[1].content)
           /\ r.hpos < Len(r.lines[1].content)

\* C17: Delete without Ctrl never changes the cursor; with hpos < len it
\* removes exactly the character at hpos; with hpos = len and vpos not the
\* last line it appends the next line's content to the current line and
\* removes the next line; all other lines unchanged.
DeleteRemovesOrJoins ==
    LET r == handle_delete(FALSE)
        cur == lines[cursor_vpos + 1].content
    IN  /\ r.hpos = cursor_hpos
        /\ r.vpos = cursor_vpos
        /\ cursor_hpos < Len(cur) =>
              /\ Len(r.lines) = Len(lines)
              /\ r.lines[cursor_vpos + 1].content = WithoutAt(cur, cursor_hpos)
              /\ \A i \in 1..Len(lines) :
                    i # cursor_vpos + 1 => r.lines[i] = lines[i]
        /\ (cursor_hpos = Len(cur) /\ cursor_vpos < Len(lines) - 1) =>
              /\ Len(r.lines) = Len(lines) - 1
              /\ r.lines[cursor_vpos + 1].content
                    = cur \o lines[cursor_vpos + 2].content
              /\ \A i \in 1..cursor_vpos : r.lines[i] = lines[i]
              /\ \A i \in (cursor_vpos + 3)..Len(lines) :
                    r.lines[i - 1] = lines[i]

\* C17 witness: the cursor is at the end of the first of two lines, a letter
\* before it and a blank starting the next line, and Delete joins the lines
\* around the cursor.
DeleteRemovesOrJoinsWitness ==
    /\ Len(lines) = 2
    /\ cursor_vpos = 0
    /\ cursor_hpos = Len(lines[1].content)
    /\ cursor_hpos > 0
    /\ lines[1].content[cursor_hpos] = "a"
    /\ lines[2].content # <<>>
    /\ lines[2].content[1] = " "
    /\ LET r == handle_delete(FALSE)
       IN  /\ Contents(r.lines) = <<lines[1].content \o lines[2].content>>
           /\ r.hpos = cursor_hpos
           /\ r.vpos = 0

\* C18: Backspace, with or without Ctrl, at (0, 0) and Delete, with or without
\* Ctrl, at the end of the last line are no-ops: the lines, their number and
\* the cursor are unchanged.
NoOpAtDocumentEnds ==
    /\ (cursor_vpos = 0 /\ cursor_hpos = 0) =>
          \A control \in BOOLEAN :
              LET r == handle_backspace(control)
              IN  /\ r.lines = lines
                  /\ r.hpos = cursor_hpos
                  /\ r.vpos = cursor_vpos
    /\ (/\ cursor_vpos = Len(lines) - 1
        /\ cursor_hpos = Len(lines[cursor_vpos + 1].content)) =>
          \A control \in BOOLEAN :
              LET r == handle_delete(control)
              IN  /\ r.lines = lines
                  /\ r.hpos = cursor_hpos
                  /\ r.vpos = cursor_vpos

\* C18 witness: the cursor is at the end of the second of two non-empty
\* lines, and neither Delete nor Ctrl+Delete changes the lines there.
NoOpAtDocumentEndsWitness ==
    /\ Len(lines) = 2
    /\ cursor_vpos = 1
    /\ lines[1].content # <<>>
    /\ cursor_hpos = Len(lines[2].content)
    /\ cursor_hpos > 0
    /\ handle_delete(TRUE).lines = lines
    /\ handle_delete(FALSE).lines = lines
    /\ handle_delete(TRUE).hpos = cursor_hpos

\* C19 as stated: Ctrl+Backspace with the cursor at the end of "foo   bar"
\* (hpos = 9) deletes back to hpos = 4.
CtrlBackspaceFooBarTo4 ==
    (/\ probe.fn = "handle_ctrl_backspace"
     /\ probe.done
     /\ probe.content = FooBar
     /\ probe.hpos = 9)
        => probe.result.hpos = 4

\* C19, amended: Ctrl+Backspace with the cursor at the end of "foo   bar"
\* (hpos = 9) deletes back to hpos = 6, removing "bar" and leaving "foo   ".
CtrlBackspaceFooBarTo6 ==
    (/\ probe.fn = "handle_ctrl_backspace"
     /\ probe.done
     /\ probe.content = FooBar
     /\ probe.hpos = 9)
        => /\ probe.result.hpos = 6
           /\ probe.result.content = <<"f", "o", "o", " ", " ", " ">>

\* C19 witness: the call on "foo   bar" has been made and took the three
\* letters of "bar" away.
CtrlBackspaceFooBarWitness ==
    /\ probe.fn = "handle_ctrl_backspace"
    /\ probe.done
    /\ probe.content = FooBar
    /\ probe.hpos = 9
    /\ Len(probe.result.content) = Len(FooBar) - 3
    /\ probe.result.content \o <<"b", "a", "r">> = FooBar

\* where the whitespace run that ends at hpos starts (hpos when there is none)
WhitespaceRunStart(content, hpos) ==
    CHOOSE e \in 0..hpos :
        /\ \A i \in (e + 1)..hpos : IsWhitespace(content[i])
        /\ e = 0 \/ ~IsWhitespace(content[e])

\* where the non-whitespace run that ends at e starts (e when there is none)
WordStart(content, e) ==
    CHOOSE s \in 0..e :
        /\ \A i \in (s + 1)..e : ~IsWhitespace(content[i])
        /\ s = 0 \/ IsWhitespace(content[s])

\* C20: Ctrl+Backspace with hpos > 0 removes exactly the range [s, hpos) of
\* the current line and sets hpos = s, where s is found by skipping the
\* whitespace run before the cursor and then the non-whitespace run before
\* that: s is 0 or the character at s - 1 is whitespace, the removed text is a
\* run of non-whitespace followed by a run of whitespace, s = 0 when no
\* whitespace precedes that word; the text after the cursor and all other
\* lines are unchanged.
CtrlBackspaceRemovesWord ==
    cursor_hpos > 0 =>
        LET r == handle_backspace(TRUE)
            cur == lines[cursor_vpos + 1].content
            e == WhitespaceRunStart(cur, cursor_hpos)
            s == r.hpos
        IN  /\ s = WordStart(cur, e)
            /\ s < cursor_hpos
            /\ r.vpos = cursor_vpos
            /\ Len(r.lines) = Len(lines)
            /\ r.lines[cursor_vpos + 1].content
                  = SubSeq(cur, 1, s) \o SubSeq(cur, cursor_hpos + 1, Len(cur))
            /\ \A i \in 1..Len(lines) :
                  i # cursor_vpos + 1 => r.lines[i] = lines[i]
            /\ s = 0 \/ IsWhitespace(cur[s])
            /\ \E m \in s..cursor_hpos :
                  /\ \A i \in (s + 1)..m : ~IsWhitespace(cur[i])
                  /\ \A i \in (m + 1)..cursor_hpos : IsWhitespace(cur[i])
            /\ (\A i \in 1..e : ~IsWhitespace(cur[i])) => s = 0

\* C20 witness: on the second line the cursor stands after a letter and a
\* blank, with a letter after it; Ctrl+Backspace takes the blank and the
\* letter before it and keeps the letter after the cursor.
CtrlBackspaceRemovesWordWitness ==
    /\ Len(lines) = 2
    /\ cursor_vpos = 1
    /\ cursor_hpos = 2
    /\ lines[2].content = <<"a", " ", "a">>
    /\ LET r == handle_backspace(TRUE)
       IN  /\ r.hpos = 0
           /\ r.lines[2].content = <<"a">>
           /\ r.lines[1] = lines[1]


\* where the whitespace run that starts at hpos ends (hpos when there is none)
WhitespaceRunEnd(content, hpos) ==
    CHOOSE m \in hpos..Len(content) :
        /\ \A i \in (hpos + 1)..m : IsWhitespace(content[i])
        /\ m = Len(content) \/ ~IsWhitespace(content[m + 1])

\* where the non-whitespace run that starts at m ends (m when there is none)
WordEnd(content, m) ==
    CHOOSE e \in m..Len(content) :
        /\ \A i \in (m + 1)..e : ~IsWhitespace(content[i])
        /\ e = Len(content) \/ IsWhitespace(content[e + 1])

\* C21: Ctrl+Delete leaves the cursor and the line count unchanged and
\* removes exactly the range [hpos, e) of the current line, where e is reached
\* by skipping the whitespace run starting at hpos and then the non-whitespace
\* run after it (the end of the line when no whitespace follows); the text
\* before the cursor and all other lines are unchanged.
CtrlDeleteRemovesWord ==
    LET r == handle_delete(TRUE)
        cur == lines[cursor_vpos + 1].content
        e == WordEnd(cur, WhitespaceRunEnd(cur, cursor_hpos))
    IN  /\ r.hpos = cursor_hpos
        /\ r.vpos = cursor_vpos
        /\ Len(r.lines) = Len(lines)
        /\ r.lines[cursor_vpos + 1].content
              = SubSeq(cur, 1, cursor_hpos) \o SubSeq(cur, e + 1, Len(cur))
        /\ \A i \in 1..Len(lines) :
              i # cursor_vpos + 1 => r.lines[i] = lines[i]
        /\ (\A i \in (cursor_hpos + 1)..Len(cur) : ~IsWhitespace(cur[i])) =>
              e = Len(cur)

\* C21 witness: the cursor stands after the first letter of "a a" on the first
\* of two lines; Ctrl+Delete takes the blank and the second letter and keeps
\* the first.
CtrlDeleteRemovesWordWitness ==
    /\ Len(lines) = 2
    /\ cursor_vpos = 0
    /\ cursor_hpos = 1
    /\ lines[1].content = <<"a", " ", "a">>
    /\ LET r == handle_delete(TRUE)
       IN  /\ r.lines[1].content = <<"a">>
           /\ r.lines[2] = lines[2]
           /\ r.hpos = 1

\* C22: ArrowLeft: hpos > 0 gives (vpos, hpos - 1); hpos = 0 and vpos > 0
\* gives (vpos - 1, length of line vpos - 1); at (0, 0) the cursor is
\* unchanged.  ArrowRight: hpos < len gives (vpos, hpos + 1); hpos = len and
\* vpos < last gives (vpos + 1, 0); at the end of the last line the cursor is
\* unchanged.
ArrowLeftRightStep ==
    LET l == handle_arrow_left
        r == handle_arrow_right
        len == Len(lines[cursor_vpos + 1].content)
    IN  /\ cursor_hpos > 0 =>
              l.vpos = cursor_vpos /\ l.hpos = cursor_hpos - 1
        /\ (cursor_hpos = 0 /\ cursor_vpos > 0) =>
              /\ l.vpos = cursor_vpos - 1
              /\ l.hpos = Len(lines[cursor_vpos].content)
        /\ (cursor_hpos = 0 /\ cursor_vpos = 0) =>
              l.vpos = cursor_vpos /\ l.hpos = cursor_hpos
        /\ cursor_hpos < len =>
              r.vpos = cursor_vpos /\ r.hpos = cursor_hpos + 1
        /\ (cursor_hpos = len /\ cursor_vpos < Len(lines) - 1) =>
              r.vpos = cursor_vpos + 1 /\ r.hpos = 0
        /\ (cursor_hpos = len /\ cursor_vpos = Len(lines) - 1) =>
              r.vpos = cursor_vpos /\ r.hpos = cursor_hpos
        /\ l.lines = lines
        /\ r.lines = lines

\* C22 witness: the cursor is at the start of the second line, the first line
\* non-empty and the second too: ArrowLeft goes to the end of the first line,
\* ArrowRight one character into the second.
ArrowLeftRightStepWitness ==
    /\ Len(lines) = 2
    /\ cursor_vpos = 1
    /\ cursor_hpos = 0
    /\ lines[1].content # <<>>
    /\ lines[2].content # <<>>
    /\ handle_arrow_left.vpos = 0
    /\ handle_arrow_left.hpos = Len(lines[1].content)
    /\ handle_arrow_right.vpos = 1
    /\ handle_arrow_right.hpos = 1


\* the cursor's visual row inside its logical line, per logical_to_visual_position
RowInLine(ls, vpos, hpos) ==
    logical_to_visual_position(ls, vpos, hpos, max_chars_per_visual_line)[1]

\* the visual row of a position counted from the top of the document
GlobalRow(ls, vpos, hpos) ==
    get_visual_line_offset(ls, vpos, max_chars_per_visual_line)
    + RowInLine(ls, vpos, hpos)

\* C23: ArrowUp moves the cursor exactly one visual row up: from row k > 0 of
\* its logical line to row k - 1 of the same line; from row 0 of a line that
\* is not the first to the last visual row of the line before; so the global
\* visual row decreases by exactly 1 unless the cursor is on the first visual
\* row of the document.
ArrowUpOneRow ==
    LET r == handle_arrow_up
        k == RowInLine(lines, cursor_vpos, cursor_hpos)
    IN  /\ k > 0 =>
              /\ r.vpos = cursor_vpos
              /\ RowInLine(r.lines, r.vpos, r.hpos) = k - 1
        /\ (k = 0 /\ cursor_vpos > 0) =>
              /\ r.vpos = cursor_vpos - 1
              /\ RowInLine(r.lines, r.vpos, r.hpos)
                    = calculate_visual_lines(lines[cursor_vpos].content,
                                             max_chars_per_visual_line) - 1
        /\ GlobalRow(lines, cursor_vpos, cursor_hpos) > 0 =>
              GlobalRow(r.lines, r.vpos, r.hpos)
                  = GlobalRow(lines, cursor_vpos, cursor_hpos) - 1

\* C24: ArrowDown moves the cursor exactly one visual row down: from row k of
\* its logical line, when that is not the line's last row, to row k + 1 of the
\* same line; from the last row of a line that is not the last to row 0 of
\* the next line; on the last visual row of the document the cursor is
\* unchanged.
ArrowDownOneRow ==
    LET r == handle_arrow_down
        k == RowInLine(lines, cursor_vpos, cursor_hpos)
        rows == calculate_visual_lines(lines[cursor_vpos + 1].content,
                                       max_chars_per_visual_line)
    IN  /\ k < rows - 1 =>
              /\ r.vpos = cursor_vpos
              /\ RowInLine(r.lines, r.vpos, r.hpos) = k + 1
        /\ (k = rows - 1 /\ cursor_vpos < Len(lines) - 1) =>
              /\ r.vpos = cursor_vpos + 1
              /\ RowInLine(r.lines, r.vpos, r.hpos) = 0
        /\ (k = rows - 1 /\ cursor_vpos = Len(lines) - 1) =>
              /\ r.vpos = cursor_vpos
              /\ r.hpos = cursor_hpos


\* where visual row k of a line starts: the k-th chunk start (0 for an empty line)
RowStart(content, max_chars, k) ==
    IF content = <<>> THEN 0
    ELSE CHOOSE p \in ChunkStarts(content, max_chars) :
             Cardinality({q \in ChunkStarts(content, max_chars) : q < p}) = k

\* the number of characters visual row k of a line holds
RowLength(content, max_chars, k) ==
    IF content = <<>> THEN 0
    ELSE find_wrap_position(content, RowStart(content, max_chars, k), max_chars)
         - RowStart(content, max_chars, k)

\* C25: an ArrowUp or ArrowDown towards a target visual row that holds more
\* than visual_col characters leaves the cursor in the visual column (per
\* logical_to_visual_position) it had before; when the target row is shorter,
\* the new column is at most the target row's length.
VerticalMoveKeepsColumn ==
    LET m == max_chars_per_visual_line
        v == logical_to_visual_position(lines, cursor_vpos, cursor_hpos, m)
        k == v[1]
        col == v[2]
        cur == lines[cursor_vpos + 1].content
        rows == calculate_visual_lines(cur, m)
        NewCol(r) == logical_to_visual_position(r.lines, r.vpos, r.hpos, m)[2]
        Keeps(r, length) ==
            /\ length > col => NewCol(r) = col
            /\ length <= col => NewCol(r) <= length
    IN  /\ k > 0 => Keeps(handle_arrow_up, RowLength(cur, m, k - 1))
        /\ (k = 0 /\ cursor_vpos > 0) =>
              LET prev == lines[cursor_vpos].content
              IN  Keeps(handle_arrow_up,
                        RowLength(prev, m, calculate_visual_lines(prev, m) - 1))
        /\ k < rows - 1 => Keeps(handle_arrow_down, RowLength(cur, m, k + 1))
        /\ (k = rows - 1 /\ cursor_vpos < Len(lines) - 1) =>
              Keeps(handle_arrow_down,
                    RowLength(lines[cursor_vpos + 2].content, m, 0))


\* the logical line that owns global visual row r, each line taking
\* calculate_visual_lines rows
RowOwner(ls, r, max_chars) ==
    CHOOSE idx \in 0..(Len(ls) - 1) :
        /\ get_visual_line_offset(ls, idx, max_chars) <= r
        /\ r < get_visual_line_offset(ls, idx, max_chars)
               + calculate_visual_lines(ls[idx + 1].content, max_chars)

\* C26: a pointer click whose y coordinate plus the scroll offset falls on
\* global visual row r, r smaller than the total number of visual rows, sets
\* cursor_vpos to the logical line that owns row r under calculate_visual_lines
\* (an empty line counts as one row) and cursor_hpos to at most that line's
\* content length.
ClickFindsRowOwner ==
    \A position \in PointerPositions :
        LET m == max_chars_per_visual_line
            r == FloorToUsize(position[2] + scroll_offset_y, line_height)
            c == button_pressed(position)
        IN  r < visual_line_count(lines, m) =>
                /\ c.vpos = RowOwner(lines, r, m)
                /\ c.hpos <= Len(lines[RowOwner(lines, r, m) + 1].content)

\* C30: for every line and every hpos in [0, len], logical_to_visual_position
\* returns (k, hpos - s_k) where [s_k, e_k) is the chunk of the wrap
\* decomposition that contains hpos (s_k <= hpos < e_k), or the last chunk when
\* hpos = len; an empty line gives (0, 0).
LogicalToVisualFindsChunk ==
    \A i \in 1..Len(lines) :
        \A hpos \in 0..Len(lines[i].content) :
            LET m == max_chars_per_visual_line
                content == lines[i].content
                v == logical_to_visual_position(lines, i - 1, hpos, m)
                starts == ChunkStarts(content, m)
                s == SetMax({p \in starts : p <= hpos})
                k == Cardinality({p \in starts : p < s})
            IN  IF content = <<>> THEN v = <<0, 0>>
                ELSE v = <<k, hpos - s>>


\* C27: inserting the characters of a text T at offset p of a line (p <= len)
\* and then draining the range [p, p + len(T)) returns exactly T and restores
\* the line's content, the fonts and font sizes back at their prior lengths.
InsertDrainRoundTrip ==
    (probe.fn = "insert_drain" /\ probe.done) =>
        /\ probe.result.drained = probe.text
        /\ probe.result.line.content = probe.content
        /\ Len(probe.result.line.fonts) = Len(probe.content)
        /\ Len(probe.result.line.font_sizes) = Len(probe.content)
        /\ probe.result.line = StyledLine(probe.content, "Font::MONOSPACE")

\* C27 witness: a blank and a letter have been inserted between the two
\* characters of a line and drained again, in that order.
InsertDrainRoundTripWitness ==
    /\ probe.fn = "insert_drain"
    /\ probe.done
    /\ Len(probe.content) = 2
    /\ probe.p = 1
    /\ probe.text = <<" ", "a">>
    /\ probe.result.drained = <<" ", "a">>
    /\ probe.result.line.content = probe.content


\* C28: max_chars_per_visual_line is at least 1 in every reachable state, and
\* once set_viewport_size(w, h) has set the width it is
\* max(1, floor((w - 20) / char_width)), also for widths below the padding.
MaxCharsFromWidth ==
    /\ max_chars_per_visual_line >= 1
    /\ viewport_width \in ViewportWidths =>
          max_chars_per_visual_line
              = Max(1, (viewport_width - padding) \div char_width)

\* C28 witness: the window is narrower than the padding, one character fits a
\* row, and a line of two characters is wrapped.
MaxCharsFromWidthWitness ==
    /\ viewport_width < padding
    /\ viewport_width \in ViewportWidths
    /\ max_chars_per_visual_line = 1
    /\ Len(lines[1].content) >= 2
    /\ visual_line_count(lines, max_chars_per_visual_line) >= 2

\* C29: find_wrap_position(line, start, max_chars) with start < len and
\* max_chars >= 1 returns, with c = min(start + max_chars, len): c if c = len;
\* otherwise i + 1 for the largest i in [start, c - 1] holding whitespace;
\* otherwise, with no whitespace in that window, c.  Hence start < result <= c.
WrapPositionExact ==
    (/\ probe.fn = "find_wrap_position"
     /\ probe.done
     /\ probe.start < Len(probe.content)
     /\ probe.max_chars >= 1)
        => LET c == Min(probe.start + probe.max_chars, Len(probe.content))
               window == {i \in probe.start..(c - 1) :
                             IsWhitespace(probe.content[i + 1])}
           IN  /\ c = Len(probe.content) => probe.result = c
               /\ (c < Len(probe.content) /\ window # {}) =>
                     /\ probe.result - 1 \in window
                     /\ \A i \in window : i <= probe.result - 1
               /\ (c < Len(probe.content) /\ window = {}) => probe.result = c
               /\ probe.start < probe.result
               /\ probe.result <= c

\* C29 witness: two blanks and two letters at three characters per row: the
\* call from position 0 breaks after the second blank.
WrapPositionExactWitness ==
    /\ probe.fn = "find_wrap_position"
    /\ probe.done
    /\ probe.content = <<" ", " ", "a", "a">>
    /\ probe.start = 0
    /\ probe.max_chars = 3
    /\ probe.result = 2


\* C31: the wrap loops end in every reachable state.  For every line and every
\* position before its end find_wrap_position returns a later position that is
\* not past the end, so each iteration of the loops of calculate_visual_lines,
\* logical_to_visual_position, handle_arrow_up and handle_arrow_down moves
\* forward; calculate_visual_lines reaches the end of the content within
\* len iterations, and the row the arrow loops walk to is below that count.
WrapLoopsTerminate ==
    /\ \A i \in 1..Len(lines) :
          LET content == lines[i].content
              rows == calculate_visual_lines(content, max_chars_per_visual_line)
          IN  /\ \A pos \in 0..(Len(content) - 1) :
                    LET w == find_wrap_position(content, pos,
                                                max_chars_per_visual_line)
                    IN  pos < w /\ w <= Len(content)
              /\ rows # Diverges
              /\ 1 <= rows /\ rows <= Max(Len(content), 1)
    /\ LET content == lines[cursor_vpos + 1].content
           v == logical_to_visual_position(lines, cursor_vpos, cursor_hpos,
                                           max_chars_per_visual_line)
       IN  /\ v[1] < calculate_visual_lines(content, max_chars_per_visual_line)
           /\ wrap_advance(content, max_chars_per_visual_line, 0, 0, v[1] + 1)
                  <= Len(content)

\* C31 witness: one character fits a row and a line of three characters is
\* walked in three iterations, the cursor on its last row.
WrapLoopsTerminateWitness ==
    /\ max_chars_per_visual_line = 1
    /\ Len(lines[1].content) = 3
    /\ calculate_visual_lines(lines[1].content, max_chars_per_visual_line) = 3
    /\ cursor_vpos = 0
    /\ cursor_hpos = 3
    /\ logical_to_visual_position(lines, cursor_vpos, cursor_hpos,
                                  max_chars_per_visual_line)[1] = 2


\* what Rust checks at run time: v[idx], v.insert(pos, _), v[..end] and
\* v.drain(start..end) panic out of bounds, a - b on usize panics below zero
IndexInBounds(v, idx) == 0 <= idx /\ idx < Len(v)
InsertInBounds(v, pos) == 0 <= pos /\ pos <= Len(v)
DrainInBounds(v, start, end) == 0 <= start /\ start <= end /\ end <= Len(v)
NoUnderflow(a, b) == a >= b

\* handle_text_input with a text of n characters: lines[cursor_vpos] after
\* ensure_line_exists and the three Vec::insert of insert_char, the i-th at
\* cursor_hpos + i into vectors grown by i
TextInputInBounds(n) ==
    LET l0 == ensure_line_exists(lines, cursor_vpos)
    IN  /\ IndexInBounds(l0, cursor_vpos)
        /\ \A i \in 0..(n - 1) :
              /\ cursor_hpos + i <= Len(l0[cursor_vpos + 1].content) + i
              /\ cursor_hpos + i <= Len(l0[cursor_vpos + 1].fonts) + i
              /\ cursor_hpos + i <= Len(l0[cursor_vpos + 1].font_sizes) + i

\* handle_enter: lines[cursor_vpos], the drain cursor_hpos..len taken when
\* cursor_hpos < len, and lines.insert(cursor_vpos + 1, _)
EnterInBounds ==
    LET l0 == ensure_line_exists(lines, cursor_vpos)
    IN  /\ IndexInBounds(l0, cursor_vpos)
        /\ cursor_hpos < Len(l0[cursor_vpos + 1].content) =>
               DrainInBounds(l0[cursor_vpos + 1].content, cursor_hpos,
                             Len(l0[cursor_vpos + 1].content))
        /\ InsertInBounds(l0, cursor_vpos + 1)

\* handle_backspace: cursor_hpos - 1 behind cursor_hpos > 0; with Ctrl the
\* slice content[..cursor_hpos] and the drain start_pos..cursor_hpos of
\* handle_ctrl_backspace; the join's lines[cursor_vpos - 1] behind cursor_vpos > 0
BackspaceInBounds ==
    LET l0 == ensure_line_exists(lines, cursor_vpos)
    IN  /\ IndexInBounds(l0, cursor_vpos)
        /\ cursor_hpos > 0 =>
              /\ NoUnderflow(cursor_hpos, 1)
              /\ cursor_hpos <= Len(l0[cursor_vpos + 1].content)
              /\ LET r == handle_ctrl_backspace(l0, cursor_vpos, cursor_hpos)
                 IN  r.hpos < cursor_hpos =>
                        DrainInBounds(l0[cursor_vpos + 1].content,
                                      r.hpos, cursor_hpos)
        /\ (cursor_hpos = 0 /\ cursor_vpos > 0) =>
              IndexInBounds(l0, cursor_vpos - 1)

\* handle_delete: lines[cursor_vpos], lines.len() - 1, with Ctrl the drain
\* cursor_hpos..end_pos of handle_ctrl_delete, the join's lines.remove(cursor_vpos + 1)
DeleteInBounds ==
    LET l0 == ensure_line_exists(lines, cursor_vpos)
        content == l0[cursor_vpos + 1].content
    IN  /\ IndexInBounds(l0, cursor_vpos)
        /\ NoUnderflow(Len(l0), 1)
        /\ LET end_pos == skip_word_forward(content,
                              skip_whitespace_forward(content, cursor_hpos))
           IN  end_pos > cursor_hpos =>
                  DrainInBounds(content, cursor_hpos, end_pos)
        /\ (cursor_hpos >= Len(content) /\ cursor_vpos < Len(l0) - 1) =>
               IndexInBounds(l0, cursor_vpos + 1)

\* handle_arrow_left and handle_arrow_right: lines[cursor_vpos] after
\* ensure_line_exists, lines.len() - 1
ArrowLeftRightInBounds ==
    /\ (cursor_hpos = 0 /\ cursor_vpos > 0) =>
           IndexInBounds(ensure_line_exists(lines, cursor_vpos - 1),
                         cursor_vpos - 1)
    /\ IndexInBounds(ensure_line_exists(lines, cursor_vpos), cursor_vpos)
    /\ NoUnderflow(Len(ensure_line_exists(lines, cursor_vpos)), 1)

\* logical_to_visual_position: lines[idx] behind idx < len, and hpos - pos
LogicalToVisualInBounds(ls, logical_line_idx, hpos, max_chars) ==
    (logical_line_idx < Len(ls) /\ ls[logical_line_idx + 1].content # <<>>) =>
        NoUnderflow(hpos,
                    logical_to_visual_loop(ls[logical_line_idx + 1].content,
                                           max_chars, hpos, 0, 0)[2])

\* handle_arrow_up past its early return: lines[cursor_vpos] and
\* find_wrap_position(..) - 1 when the cursor's row is not the first,
\* lines[cursor_vpos - 1] when it moves to the previous line
ArrowUpInBounds ==
    (cursor_vpos # 0 \/ cursor_hpos # 0) =>
        LET max_chars == max_chars_per_visual_line
            visual_line == logical_to_visual_position(lines, cursor_vpos,
                                                      cursor_hpos, max_chars)[1]
        IN  /\ LogicalToVisualInBounds(lines, cursor_vpos, cursor_hpos, max_chars)
            /\ visual_line > 0 =>
                  /\ IndexInBounds(lines, cursor_vpos)
                  /\ NoUnderflow(visual_line, 1)
                  /\ LET content == lines[cursor_vpos + 1].content
                         pos == wrap_advance(content, max_chars, 0, 0,
                                             visual_line - 1)
                     IN  NoUnderflow(find_wrap_position(content, pos, max_chars), 1)
            /\ (visual_line = 0 /\ cursor_vpos > 0) =>
                  /\ IndexInBounds(lines, cursor_vpos - 1)
                  /\ LET prev_visual_lines ==
                             calculate_visual_lines(lines[cursor_vpos].content,
                                                    max_chars)
                     IN  prev_visual_lines > 0 => NoUnderflow(prev_visual_lines, 1)

\* handle_arrow_down: lines.len() - 1 and lines[cursor_vpos] in its first
\* test, current_line_visual_lines - 1, find_wrap_position(..) - 1 when it
\* moves inside the line, lines[cursor_vpos + 1] when it moves to the next
ArrowDownInBounds ==
    /\ NoUnderflow(Len(lines), 1)
    /\ IndexInBounds(lines, cursor_vpos)
    /\ LET max_chars == max_chars_per_visual_line
           current_line == lines[cursor_vpos + 1].content
           visual_line == logical_to_visual_position(lines, cursor_vpos,
                                                     cursor_hpos, max_chars)[1]
           current_line_visual_lines ==
               calculate_visual_lines(current_line, max_chars)
       IN  ~(cursor_vpos >= Len(lines) - 1 /\ cursor_hpos >= Len(current_line)) =>
              /\ LogicalToVisualInBounds(lines, cursor_vpos, cursor_hpos,
                                         max_chars)
              /\ NoUnderflow(current_line_visual_lines, 1)
              /\ visual_line < current_line_visual_lines - 1 =>
                    LET pos == wrap_advance(current_line, max_chars, 0, 0,
                                            visual_line + 1)
                    IN  NoUnderflow(find_wrap_position(current_line, pos,
                                                       max_chars), 1)
              /\ (visual_line >= current_line_visual_lines - 1
                    /\ cursor_vpos < Len(lines) - 1) =>
                    IndexInBounds(lines, cursor_vpos + 1)

\* handle_mouse_event, ButtonPressed with a position: the division of
\* div_ceil, visual_line -= num_visual behind visual_line >= num_visual, and
\* lines[logical_vpos]
ButtonPressedInBounds ==
    last_click_position # None =>
        /\ max_chars_per_visual_line # 0
        /\ lines # <<>>
        /\ LET click_y == last_click_position[2] + scroll_offset_y
               found == click_line(lines, 0, FloorToUsize(click_y, line_height),
                                   max_chars_per_visual_line)
           IN  /\ found[2] >= 0
               /\ IndexInBounds(lines, found[1])

\* C32: no operation fails in a reachable state.  Whatever key intent, click,
\* wheel step or resize comes next, every index into lines and into a line's
\* content is in bounds, every drain range has start <= end <= len, and no
\* unsigned subtraction (hpos - 1, lines.len() - 1, wrap position - 1,
\* visual lines - 1, hpos - pos) goes below zero.  ensure_cursor_visible, run
\* at the end of a handler, reads the state the handler leaves, itself a
\* reachable state: its hpos - pos is the one checked for the cursor here.
NoOperationFails ==
    /\ \A n \in 1..MaxText : TextInputInBounds(n)
    /\ EnterInBounds
    /\ BackspaceInBounds
    /\ DeleteInBounds
    /\ ArrowLeftRightInBounds
    /\ LogicalToVisualInBounds(lines, cursor_vpos, cursor_hpos,
                               max_chars_per_visual_line)
    /\ ArrowUpInBounds
    /\ ArrowDownInBounds
    /\ ButtonPressedInBounds

\* C32 witness: one character per row, the cursor at the end of a line of
\* three characters that follows another line, and a pointer position
\* recorded: Arrow Up takes wrap position - 1, Ctrl+Backspace slices and
\* drains up to the cursor, a click walks the lines.
NoOperationFailsWitness ==
    /\ max_chars_per_visual_line = 1
    /\ Len(lines) = 2
    /\ cursor_vpos = 1
    /\ Len(lines[2].content) = 2
    /\ cursor_hpos = 2
    /\ logical_to_visual_position(lines, cursor_vpos, cursor_hpos,
                                  max_chars_per_visual_line)[1] > 0
    /\ last_click_position # None


\* C33: Enter immediately followed by Backspace (without Ctrl) gives back the
\* document text and the cursor: handle_backspace applied to what handle_enter
\* leaves gives lines with the contents (and so the count) of the lines
\* before the Enter, and the cursor (vpos, hpos) of before the Enter.
EnterBackspaceIdentity ==
    LET entered == handle_enter
        back == handle_backspace_on(entered.lines, entered.vpos, entered.hpos,
                                    FALSE)
    IN  /\ Contents(back.lines) = Contents(lines)
        /\ Len(back.lines) = Len(lines)
        /\ back.vpos = cursor_vpos
        /\ back.hpos = cursor_hpos

\* C33 witness: the cursor is in the middle of a line of two characters and
\* the buffer has room for a line: Enter splits the line in two halves with
\* the cursor at the start of the second, and Backspace joins them again.
EnterBackspaceIdentityWitness ==
    /\ Len(lines) = 1
    /\ Len(lines) < MaxLines
    /\ Len(lines[1].content) = 2
    /\ cursor_vpos = 0
    /\ cursor_hpos = 1
    /\ LET entered == handle_enter
       IN  /\ Len(entered.lines) = 2
           /\ Len(entered.lines[1].content) = 1
           /\ Len(entered.lines[2].content) = 1
           /\ entered.vpos = 1
           /\ entered.hpos = 0
           /\ handle_backspace_on(entered.lines, entered.vpos, entered.hpos,
                                  FALSE).lines[1].content = lines[1].content

\* C34: viewport reconciliation is idempotent: in every reachable state,
\* ensure_cursor_visible run a second time with nothing changed in between
\* leaves scroll_offset_y at the value the first run gave it.
ReconcileIdempotent ==
    LET once == Reveal(lines, cursor_vpos, cursor_hpos, scroll_offset_y)
    IN  Reveal(lines, cursor_vpos, cursor_hpos, once) = once

====
